---- MODULE Spec2Model ----
(***************************************************************************)
(* A model of MongoWrapper (src/MongoWrapper.py): documents holding numpy  *)
(* arrays are saved to a collection, the arrays being stashed in gridfs    *)
(* and replaced by ObjectId pointers listed under '_npObjectIDs'.          *)
(*                                                                         *)
(* Python values are tagged records [t |-> tag, v |-> payload]:            *)
(*   "arr"   a numpy array            "oid"  an ObjectId                   *)
(*   "dict"  a (nested) dict          "list" a list of ObjectIds           *)
(*   "newlist" the list object self.temp_newNpObjectIds is bound to        *)
(*   "npint" a numpy integer scalar   "int"  a python int                  *)
(*   "str"   a string                 "date" a datetime                    *)
(* A dict is a function from key strings to tagged values.                 *)
(***************************************************************************)
EXTENDS Integers, Sequences, FiniteSets, TLC

\* ObjectIds the process may generate (blob ids and document ids).
MaxOid == 5
\* Operations the client may issue.
MaxOps == 5

Threads == {1, 2}

None == [t |-> "none", v |-> 0]
Oid(n) == [t |-> "oid", v |-> n]
Arr(a) == [t |-> "arr", v |-> a]
Dict(d) == [t |-> "dict", v |-> d]
List(s) == [t |-> "list", v |-> s]
NewList == [t |-> "newlist", v |-> 0]
Raise(e) == [t |-> "raise", v |-> e]
Now == [t |-> "date", v |-> 0]

EmptyDict == [k \in {} |-> None]
Put(d, k, x) == (k :> x) @@ d
Del(d, k) == [x \in (DOMAIN d) \ {k} |-> d[x]]

RECURSIVE GetPath(_, _)
GetPath(d, p) ==
    IF Len(p) = 1 THEN d[p[1]] ELSE GetPath(d[p[1]].v, Tail(p))

RECURSIVE SetPath(_, _, _)
SetPath(d, p, x) ==
    IF Len(p) = 1 THEN [d EXCEPT ![p[1]] = x]
    ELSE [d EXCEPT ![p[1]] = Dict(SetPath(d[p[1]].v, Tail(p), x))]

RECURSIVE HasPath(_, _)
HasPath(d, p) ==
    /\ p[1] \in DOMAIN d
    /\ \/ Len(p) = 1
       \/ d[p[1]].t = "dict" /\ HasPath(d[p[1]].v, Tail(p))

\* The order in which document.items() yields the keys of a dict: one fixed
\* order; the field names a, b, c are interchangeable.
KeyOrder == <<"_id", "_npObjectIDs", "a", "b", "c", "d", "insertion_date", "n", "sub">>

Items(d) == SelectSeq(KeyOrder, LAMBDA k : k \in DOMAIN d)

RECURSIVE RemoveFirst(_, _)
RemoveFirst(s, x) ==
    IF s = <<>> THEN <<>>
    ELSE IF Head(s) = x THEN Tail(s)
    ELSE <<Head(s)>> \o RemoveFirst(Tail(s), x)

Range(s) == {s[i] : i \in DOMAIN s}

(***************************************************************************)
(* The array codec.  An array is [dtype, shape, data]; its pickle is the   *)
(* byte string <<dtype code, ndim>> \o shape \o data.                      *)
(***************************************************************************)
DtypeCode(dt) == IF dt = "i" THEN 1 ELSE 2
DtypeName(c) == IF c = 1 THEN "i" ELSE "f"

npArray2Binary(a) ==
    <<DtypeCode(a.dtype), Len(a.shape)>> \o a.shape \o a.data

binary2npArray(b) ==
    [dtype |-> DtypeName(b[1]),
     shape |-> SubSeq(b, 3, 2 + b[2]),
     data  |-> SubSeq(b, 3 + b[2], Len(b))]

RECURSIVE Digest(_, _)
Digest(b, h) ==
    IF b = <<>> THEN h ELSE Digest(Tail(b), (h * 31 + Head(b) + 1) % 65536)

\* hashlib.md5(...).hexdigest(), and the md5 gridfs records for a file
md5(b) == Digest(b, 7)


(***************************************************************************)
(* The documents and identities a client passes in.                        *)
(***************************************************************************)
A1 == [dtype |-> "i", shape |-> <<2>>, data |-> <<1, 2>>]
A2 == [dtype |-> "i", shape |-> <<1, 2>>, data |-> <<1, 2>>]
Arrays == {A1, A2}

\* top-level fields: none, a, a and b, or a, b and c; a new document's a is A1
TopKeySets == {{}, {"a"}, {"a", "b"}, {"a", "b", "c"}}
TopDocs == {d \in UNION {[K -> {Arr(x) : x \in Arrays}] : K \in TopKeySets} :
                "a" \in DOMAIN d => d["a"] = Arr(A1)}
SubDocs == {EmptyDict,
            "sub" :> Dict("_id" :> Arr(A1)),
            "sub" :> Dict(("d" :> Arr(A1)) @@ ("n" :> [t |-> "npint", v |-> 3]))}
UserDocs == {top @@ sub : top \in TopDocs, sub \in SubDocs}

\* array leaves a client may assign to
FieldPaths == {<<"a">>, <<"b">>, <<"c">>, <<"sub", "_id">>, <<"sub", "d">>}

\* an identity the caller supplies
CallerIds == {[t |-> "int", v |-> 7]}

VARIABLES
    fs,            \* gridfs: blob ObjectId number -> stored bytes
    collection,    \* the collection: stored documents in natural order
    nextOid,       \* next ObjectId to be generated
    temp_old,      \* self.temp_oldNpObjectIDs
    temp_new,      \* self.temp_newNpObjectIds
    mem,           \* the callers' in-memory documents
    pc,            \* each thread's position
    sv,            \* locals of save
    ld,            \* locals of load and loadFromIds
    dl,            \* locals of delete
    ret,           \* what the last call of each thread returned or raised
    ops,           \* operations issued so far
    hist           \* history of the call in progress, per thread

store == <<fs, collection, nextOid>>
inst == <<temp_old, temp_new>>
vars == <<fs, collection, nextOid, temp_old, temp_new, mem, pc, sv, ld, dl, ret, ops, hist>>

Sv0 == [todo |-> <<>>, id_values |-> <<>>, docCopy |-> EmptyDict, work |-> <<>>,
        it |-> [alias |-> FALSE, list |-> <<>>, i |-> 1]]
Ld0 == [results |-> <<>>, work |-> <<>>, getarrays |-> FALSE, caller |-> "client",
        Ids |-> <<>>, out |-> <<>>, obj_id |-> None]
Dl0 == [objectId |-> None, todel |-> <<>>]
Clean == [k |-> "clean", p |-> <<>>, was |-> None]
Fresh == [k |-> "new", p |-> <<>>, was |-> None]
Other == [k |-> "other", p |-> <<>>, was |-> None]
OneField(p, was) == [k |-> "one", p |-> p, was |-> was]
Mem0 == [doc |-> None, dirty |-> Fresh]
Hist0 == [op |-> "none", h |-> 0, dirty |-> Fresh, fs0 |-> EmptyDict, col0 |-> <<>>,
          next0 |-> 0, upserted |-> FALSE, deleted |-> {}, interrupted |-> FALSE,
          arg |-> None, getarrays |-> FALSE, follows |-> FALSE, todo0 |-> <<>>,
          held |-> <<>>, at |-> "none", doc |-> None]

Init ==
    /\ fs = EmptyDict
    /\ collection = <<>>
    /\ nextOid = 1
    /\ temp_old = <<>>
    /\ temp_new = <<>>
    /\ mem = [h \in Threads |-> Mem0]
    /\ pc = [t \in Threads |-> "idle"]
    /\ sv = [t \in Threads |-> Sv0]
    /\ ld = [t \in Threads |-> Ld0]
    /\ dl = [t \in Threads |-> Dl0]
    /\ ret = [t \in Threads |-> None]
    /\ ops = 0
    /\ hist = [t \in Threads |-> Hist0]


(***************************************************************************)
(* List objects.  doc['_npObjectIDs'] and docCopy['_npObjectIDs'] are set  *)
(* to the very list object self.temp_newNpObjectIds is bound to (NewList); *)
(* when the attribute is bound to another list, the object they hold stops *)
(* changing and is written out as a plain list.                            *)
(***************************************************************************)
DerefDoc(d) ==
    IF "_npObjectIDs" \in DOMAIN d /\ d["_npObjectIDs"] = NewList
    THEN [d EXCEPT !["_npObjectIDs"] = List(temp_new)]
    ELSE d

Deref(x) == IF x.t = "dict" THEN Dict(DerefDoc(x.v)) ELSE x

FreezeMem == [h \in DOMAIN mem |-> [mem[h] EXCEPT !.doc = Deref(@)]]

\* the other threads' locals once self.temp_newNpObjectIds is bound anew
FreezeSvNew(t) ==
    [u \in Threads |-> IF u = t THEN sv[u] ELSE [sv[u] EXCEPT !.docCopy = DerefDoc(@)]]

\* a list iterator of another thread over the object self.temp_oldNpObjectIDs
\* was bound to keeps that object
FreezeIt(it) == IF it.alias THEN [alias |-> FALSE, list |-> temp_old, i |-> it.i] ELSE it

FreezeSvOld(svs, t) ==
    [u \in Threads |-> IF u = t THEN svs[u] ELSE [svs[u] EXCEPT !.it = FreezeIt(@)]]

\* copy.deepcopy(doc)
DeepCopy(d) == DerefDoc(d)

(***************************************************************************)
(* _stashNPArrays, one leaf at a time in the order of the recursion.       *)
(***************************************************************************)
RECURSIVE StashWalk(_, _, _)
StashWalk(d, keys, prefix) ==
    IF keys = <<>> THEN <<>>
    ELSE LET k == Head(keys)
             val == d[k]
             here == IF val.t = "arr" THEN <<Append(prefix, k)>>
                     ELSE IF val.t = "dict"
                          THEN StashWalk(val.v, Items(val.v), Append(prefix, k))
                     ELSE IF val.t \in {"npint", "npfloat"} THEN <<Append(prefix, k)>>
                     ELSE <<>>
         IN here \o StashWalk(d, Tail(keys), prefix)

StashPaths(d) == StashWalk(d, Items(d), <<>>)

\* the loop "for obj in self.temp_oldNpObjectIDs" of one array leaf: st.old
\* is the list being iterated and shortened, i the iterator's position
RECURSIVE ScanOld(_, _, _)
ScanOld(i, st, dataMD5) ==
    IF i > Len(st.old) THEN st
    ELSE LET obj == st.old[i] IN
         IF obj \notin DOMAIN fs THEN [st EXCEPT !.err = TRUE]
         ELSE IF dataMD5 = md5(fs[obj])
              THEN ScanOld(i + 1, [st EXCEPT !.match = TRUE, !.obj = obj,
                                             !.old = RemoveFirst(@, obj),
                                             !.new = Append(@, obj)], dataMD5)
              ELSE ScanOld(i + 1, st, dataMD5)

Return(t, x) ==
    /\ pc' = [pc EXCEPT ![t] = "idle"]
    /\ ret' = [ret EXCEPT ![t] = x]

(***************************************************************************)
(* The client's own handling of its in-memory documents.                   *)
(***************************************************************************)
Idle(t) == pc[t] = "idle" /\ ops < MaxOps

Create(h, d, id) ==
    /\ Idle(h)
    /\ mem[h].doc = None
    /\ mem' = [mem EXCEPT ![h] = [doc |-> Dict(IF id = None THEN d ELSE Put(d, "_id", id)),
                                  dirty |-> Fresh]]
    /\ ops' = ops + 1
    /\ UNCHANGED <<store, inst, pc, sv, ld, dl, ret, hist>>

SetField(h, p, a) ==
    /\ Idle(h)
    /\ mem[h].doc.t = "dict"
    /\ HasPath(mem[h].doc.v, p)
    /\ LET cur == GetPath(mem[h].doc.v, p)
           dirty == mem[h].dirty
       IN /\ cur.t \in {"arr", "oid"}
          /\ cur # Arr(a)
          /\ mem' = [mem EXCEPT ![h] =
                 [doc |-> Dict(SetPath(mem[h].doc.v, p, Arr(a))),
                  dirty |-> IF dirty = Clean THEN OneField(p, cur)
                            ELSE IF dirty.k = "one" /\ dirty.p = p
                                 THEN (IF dirty.was = Arr(a) THEN Clean ELSE dirty)
                            ELSE IF dirty = Fresh THEN Fresh ELSE Other]]
    /\ ops' = ops + 1
    /\ UNCHANGED <<store, inst, pc, sv, ld, dl, ret, hist>>

\* del doc[k]
DropKey(h, k) ==
    /\ Idle(h)
    /\ mem[h].doc.t = "dict"
    /\ k \in DOMAIN mem[h].doc.v
    /\ mem' = [mem EXCEPT ![h] = [doc |-> Dict(Del(mem[h].doc.v, k)), dirty |-> Other]]
    /\ ops' = ops + 1
    /\ UNCHANGED <<store, inst, pc, sv, ld, dl, ret, hist>>

\* the client keeps the document a load returned
Adopt(h) ==
    /\ Idle(h)
    /\ ret[h].t = "dict"
    /\ mem' = [mem EXCEPT ![h] = [doc |-> ret[h], dirty |-> Other]]
    /\ ops' = ops + 1
    /\ UNCHANGED <<store, inst, pc, sv, ld, dl, ret, hist>>

\* the client gives handle h a copy.deepcopy of the document it has just saved
\* from handle g
Share(h, g) ==
    /\ pc[h] = "idle" /\ pc[g] = "idle"
    /\ mem[h].doc = None
    /\ mem[g].doc.t = "dict" /\ mem[g].dirty = Clean
    /\ mem' = [mem EXCEPT ![h] = [doc |-> Deref(mem[g].doc), dirty |-> Clean]]
    /\ UNCHANGED <<store, inst, pc, sv, ld, dl, ret, ops, hist>>


(***************************************************************************)
(* save(document)                                                          *)
(***************************************************************************)
\* lines 145-149: a single document becomes a list
SaveBegin(t, hs) ==
    /\ Idle(t)
    /\ \A i \in DOMAIN hs : mem[hs[i]].doc.t = "dict"
    /\ pc' = [pc EXCEPT ![t] = "save_doc"]
    /\ sv' = [sv EXCEPT ![t] = [Sv0 EXCEPT !.todo = hs]]
    /\ ret' = [ret EXCEPT ![t] = None]
    /\ hist' = [hist EXCEPT ![t] = [Hist0 EXCEPT !.op = "save", !.fs0 = fs,
                                                 !.col0 = collection,
                                                 !.next0 = nextOid,
                                                 !.todo0 = hs]]
    /\ ops' = ops + 1
    /\ UNCHANGED <<store, inst, mem, ld, dl>>

\* SaveDoc with line 165 moved before line 162: the caller's document is given
\* the new reference list before the arrays are stashed
SaveDocAttachEarly(t) ==
    /\ pc[t] = "save_doc"
    /\ \/ /\ sv[t].todo = <<>>
          /\ Return(t, List(sv[t].id_values))
          /\ sv' = [sv EXCEPT ![t] = Sv0]
          /\ hist' = [hist EXCEPT ![t].held =
                         [i \in DOMAIN hist[t].todo0 |->
                             IF "_id" \in DOMAIN mem[hist[t].todo0[i]].doc.v
                             THEN mem[hist[t].todo0[i]].doc.v["_id"] ELSE None]]
          /\ UNCHANGED <<store, inst, mem, ld, dl, ops>>
       \/ /\ sv[t].todo # <<>>
          /\ LET h == Head(sv[t].todo)
                 docCopy == DeepCopy(mem[h].doc.v)
                 old == IF "_npObjectIDs" \in DOMAIN docCopy
                        THEN docCopy["_npObjectIDs"].v ELSE <<>>
             IN /\ temp_old' = old
                /\ temp_new' = <<>>
                /\ mem' = [FreezeMem EXCEPT
                              ![h].doc = Dict(Put(mem[h].doc.v, "_npObjectIDs", NewList))]
                /\ sv' = [FreezeSvOld(FreezeSvNew(t), t) EXCEPT
                             ![t].docCopy = docCopy, ![t].work = StashPaths(docCopy)]
                /\ hist' = [hist EXCEPT ![t] =
                               [Hist0 EXCEPT !.op = "save", !.h = h,
                                             !.dirty = mem[h].dirty, !.fs0 = fs,
                                             !.col0 = collection, !.next0 = nextOid,
                                             !.arg = Dict(docCopy),
                                             !.todo0 = hist[t].todo0]]
                /\ pc' = [pc EXCEPT ![t] = "stash"]
                /\ UNCHANGED <<store, ld, dl, ret, ops>>

\* lines 150-160 for the next document, or lines 183-184 after the last
SaveDoc(t) ==
    /\ pc[t] = "save_doc"
    /\ \/ /\ sv[t].todo = <<>>
          /\ Return(t, List(sv[t].id_values))
          /\ sv' = [sv EXCEPT ![t] = Sv0]
          /\ hist' = [hist EXCEPT ![t].held =
                         [i \in DOMAIN hist[t].todo0 |->
                             IF "_id" \in DOMAIN mem[hist[t].todo0[i]].doc.v
                             THEN mem[hist[t].todo0[i]].doc.v["_id"] ELSE None]]
          /\ UNCHANGED <<store, inst, mem, ld, dl, ops>>
       \/ /\ sv[t].todo # <<>>
          /\ LET h == Head(sv[t].todo)
                 docCopy == DeepCopy(mem[h].doc.v)
                 old == IF "_npObjectIDs" \in DOMAIN docCopy
                        THEN docCopy["_npObjectIDs"].v ELSE <<>>
             IN /\ temp_old' = old
                /\ temp_new' = <<>>
                /\ mem' = FreezeMem
                /\ sv' = [FreezeSvOld(FreezeSvNew(t), t) EXCEPT
                             ![t].docCopy = docCopy, ![t].work = StashPaths(docCopy)]
                /\ hist' = [hist EXCEPT ![t] =
                               [Hist0 EXCEPT !.op = "save", !.h = h,
                                             !.dirty = mem[h].dirty, !.fs0 = fs,
                                             !.col0 = collection, !.next0 = nextOid,
                                             !.arg = Dict(docCopy),
                                             !.todo0 = hist[t].todo0]]
                /\ pc' = [pc EXCEPT ![t] = "stash"]
                /\ UNCHANGED <<store, ld, dl, ret, ops>>

\* an exception leaves the call
Abort(t, e) ==
    /\ Return(t, Raise(e))
    /\ sv' = [sv EXCEPT ![t] = Sv0]
    /\ ld' = [ld EXCEPT ![t] = Ld0]
    /\ dl' = [dl EXCEPT ![t] = Dl0]
    /\ hist' = [hist EXCEPT ![t].interrupted = TRUE, ![t].at = pc[t],
                            ![t].doc = IF hist[t].h \in Threads
                                       THEN Deref(mem[hist[t].h].doc) ELSE None]

\* lines 311-329: one numpy array of the document
StashArray(t, p, a) ==
    LET dataBSON == npArray2Binary(a)
        dataMD5 == md5(dataBSON)
        r == ScanOld(1, [old |-> temp_old, new |-> temp_new, match |-> FALSE,
                         obj |-> 0, err |-> FALSE], dataMD5)
    IN /\ temp_old' = r.old
       /\ IF r.err
          THEN /\ Abort(t, "NoFile")
               /\ temp_new' = r.new
               /\ UNCHANGED <<store, mem, ops>>
          ELSE IF r.match
          THEN /\ temp_new' = r.new
               /\ sv' = [sv EXCEPT ![t].docCopy = SetPath(@, p, Oid(r.obj)),
                                   ![t].work = Tail(@)]
               /\ UNCHANGED <<store, mem, ld, dl, ret, ops, hist, pc>>
          ELSE /\ nextOid <= MaxOid
               /\ fs' = Put(fs, nextOid, dataBSON)
               /\ nextOid' = nextOid + 1
               /\ temp_new' = Append(r.new, nextOid)
               /\ sv' = [sv EXCEPT ![t].docCopy = SetPath(@, p, Oid(nextOid)),
                                   ![t].work = Tail(@)]
               /\ UNCHANGED <<collection, mem, ld, dl, ret, ops, hist, pc>>

\* lines 334-338: a numpy scalar
StashNumber(t, p, x) ==
    /\ sv' = [sv EXCEPT ![t].docCopy =
                 SetPath(@, p, [t |-> IF x.t = "npint" THEN "int" ELSE "float", v |-> x.v]),
                        ![t].work = Tail(@)]
    /\ UNCHANGED <<store, inst, mem, ld, dl, ret, ops, hist, pc>>

StashLeaf(t) ==
    /\ pc[t] = "stash"
    /\ sv[t].work # <<>>
    /\ LET p == Head(sv[t].work)
           x == GetPath(sv[t].docCopy, p)
       IN IF x.t = "arr" THEN StashArray(t, p, x.v) ELSE StashNumber(t, p, x)

\* SaveAttach with line 165 left out: the caller's document is not given the
\* new reference list
SaveAttachCopyOnly(t) ==
    /\ pc[t] = "stash"
    /\ sv[t].work = <<>>
    /\ sv' = [sv EXCEPT ![t].docCopy = Put(@, "_npObjectIDs", NewList),
                        ![t].it = [alias |-> TRUE, list |-> <<>>, i |-> 1]]
    /\ pc' = [pc EXCEPT ![t] = "cleanup"]
    /\ UNCHANGED <<store, inst, mem, ld, dl, ret, ops, hist>>

\* lines 164-165, and the start of the loop of line 169
SaveAttach(t) ==
    /\ pc[t] = "stash"
    /\ sv[t].work = <<>>
    /\ LET h == Head(sv[t].todo) IN
       /\ sv' = [sv EXCEPT ![t].docCopy = Put(@, "_npObjectIDs", NewList),
                           ![t].it = [alias |-> TRUE, list |-> <<>>, i |-> 1]]
       /\ mem' = [mem EXCEPT ![h] = [doc |-> Dict(Put(@.doc.v, "_npObjectIDs", NewList)),
                                     dirty |-> Other]]
    /\ pc' = [pc EXCEPT ![t] = "cleanup"]
    /\ UNCHANGED <<store, inst, ld, dl, ret, ops, hist>>

\* lines 169-171: one turn of the loop; lines 172-176 once it is over
Cleanup(t) ==
    /\ pc[t] = "cleanup"
    /\ LET it == sv[t].it
           L == IF it.alias THEN temp_old ELSE it.list
           h == Head(sv[t].todo)
       IN \/ /\ it.i <= Len(L)
             /\ fs' = Del(fs, L[it.i])
             /\ sv' = [sv EXCEPT ![t].it.i = @ + 1]
             /\ hist' = [hist EXCEPT ![t].deleted = @ \cup {L[it.i]}]
             /\ UNCHANGED <<collection, nextOid, inst, mem, pc, ld, dl, ret, ops>>
          \/ /\ it.i > Len(L)
             /\ temp_old' = <<>>
             /\ sv' = [FreezeSvOld(sv, t) EXCEPT
                          ![t].docCopy = Put(@, "insertion_date", Now)]
             /\ mem' = [mem EXCEPT ![h].doc = Dict(Put(@.v, "insertion_date", Now))]
             /\ pc' = [pc EXCEPT ![t] = "upsert"]
             /\ UNCHANGED <<store, temp_new, ld, dl, ret, ops, hist>>

\* Upsert with collection.insert in the place of collection.save: a document
\* that has an '_id' is added next to the stored one
UpsertAlwaysInsert(t) ==
    /\ pc[t] = "upsert"
    /\ LET h == Head(sv[t].todo)
           to_save == DerefDoc(sv[t].docCopy)
       IN IF "_id" \notin DOMAIN to_save
          THEN /\ nextOid <= MaxOid
               /\ collection' = Append(collection, Put(to_save, "_id", Oid(nextOid)))
               /\ nextOid' = nextOid + 1
               /\ mem' = [mem EXCEPT ![h] = [doc |-> Dict(Put(@.doc.v, "_id", Oid(nextOid))),
                                             dirty |-> Clean]]
               /\ sv' = [sv EXCEPT ![t].id_values = Append(@, Oid(nextOid)),
                                   ![t].todo = Tail(@)]
               /\ UNCHANGED fs
          ELSE /\ collection' = Append(collection, to_save)
               /\ mem' = [mem EXCEPT ![h].dirty = Clean]
               /\ sv' = [sv EXCEPT ![t].id_values = Append(@, to_save["_id"]),
                                   ![t].todo = Tail(@)]
               /\ UNCHANGED <<fs, nextOid>>
    /\ hist' = [hist EXCEPT ![t].upserted = TRUE]
    /\ pc' = [pc EXCEPT ![t] = "save_doc"]
    /\ UNCHANGED <<inst, ld, dl, ret, ops>>

Position(id) ==
    LET S == {i \in DOMAIN collection : collection[i]["_id"] = id}
    IN IF S = {} THEN 0 ELSE CHOOSE i \in S : \A j \in S : i <= j

\* lines 179-181: collection.save(docCopy) inserts a document that has no '_id'
\* under a new ObjectId and upserts one that has
Upsert(t) ==
    /\ pc[t] = "upsert"
    /\ LET h == Head(sv[t].todo)
           to_save == DerefDoc(sv[t].docCopy)
       IN IF "_id" \notin DOMAIN to_save
          THEN /\ nextOid <= MaxOid
               /\ collection' = Append(collection, Put(to_save, "_id", Oid(nextOid)))
               /\ nextOid' = nextOid + 1
               /\ mem' = [mem EXCEPT ![h] = [doc |-> Dict(Put(@.doc.v, "_id", Oid(nextOid))),
                                             dirty |-> Clean]]
               /\ sv' = [sv EXCEPT ![t].id_values = Append(@, Oid(nextOid)),
                                   ![t].todo = Tail(@)]
               /\ UNCHANGED fs
          ELSE LET new_id == to_save["_id"]
                   i == Position(new_id)
               IN /\ collection' = IF i = 0 THEN Append(collection, to_save)
                                    ELSE [collection EXCEPT ![i] = to_save]
                  /\ mem' = [mem EXCEPT ![h].dirty = Clean]
                  /\ sv' = [sv EXCEPT ![t].id_values = Append(@, new_id),
                                      ![t].todo = Tail(@)]
                  /\ UNCHANGED <<fs, nextOid>>
    /\ hist' = [hist EXCEPT ![t].upserted = TRUE]
    /\ pc' = [pc EXCEPT ![t] = "save_doc"]
    /\ UNCHANGED <<inst, ld, dl, ret, ops>>

(***************************************************************************)
(* load(query, getarrays)                                                  *)
(***************************************************************************)
Matches(d, q) == \A k \in DOMAIN q : k \in DOMAIN d /\ d[k] = q[k]

\* the ObjectId-valued entries _loadNPArrays replaces, in the order of its
\* recursion; it skips every entry whose key is '_id' (line 290)
RECURSIVE LoadWalk(_, _, _)
LoadWalk(d, keys, prefix) ==
    IF keys = <<>> THEN <<>>
    ELSE LET k == Head(keys)
             val == d[k]
             here == IF val.t = "oid" /\ k # "_id" THEN <<Append(prefix, k)>>
                     ELSE IF val.t = "dict"
                          THEN LoadWalk(val.v, Items(val.v), Append(prefix, k))
                     ELSE <<>>
         IN here \o LoadWalk(d, Tail(keys), prefix)

LoadPaths(d) == LoadWalk(d, Items(d), <<>>)

RECURSIVE LoadWork(_, _)
LoadWork(results, i) ==
    IF i > Len(results) THEN <<>>
    ELSE [j \in 1..Len(LoadPaths(results[i])) |-> <<i, LoadPaths(results[i])[j]>>]
         \o LoadWork(results, i + 1)

\* line 220, and the documents the cursor hands to lines 223/225
Find(l, query, getarrays, caller) ==
    LET results == SelectSeq(collection, LAMBDA d : Matches(d, query)) IN
    [l EXCEPT !.results = results,
              !.work = IF getarrays THEN LoadWork(results, 1) ELSE <<>>,
              !.getarrays = getarrays,
              !.caller = caller]

LoadBegin(t, query, getarrays) ==
    /\ Idle(t)
    /\ ld' = [ld EXCEPT ![t] = Find(Ld0, query, getarrays, "client")]
    /\ pc' = [pc EXCEPT ![t] = "load"]
    /\ ret' = [ret EXCEPT ![t] = None]
    /\ hist' = [hist EXCEPT ![t] = [Hist0 EXCEPT !.op = "load", !.arg = Dict(query),
                                                 !.getarrays = getarrays,
                                                 !.col0 = collection, !.fs0 = fs]]
    /\ ops' = ops + 1
    /\ UNCHANGED <<store, inst, mem, sv, dl>>

\* line 291: one pointer of one document
LoadLeaf(t) ==
    /\ pc[t] = "load"
    /\ ld[t].work # <<>>
    /\ LET i == Head(ld[t].work)[1]
           p == Head(ld[t].work)[2]
           value == GetPath(ld[t].results[i], p).v
       IN IF value \notin DOMAIN fs
          THEN /\ Abort(t, "NoFile")
               /\ UNCHANGED <<store, inst, mem, ops>>
          ELSE /\ ld' = [ld EXCEPT ![t].results[i] =
                            SetPath(@, p, Arr(binary2npArray(fs[value]))),
                                   ![t].work = Tail(@)]
               /\ UNCHANGED <<store, inst, mem, pc, sv, dl, ret, ops, hist>>

\* Shape with the test of line 230 left out: one match comes back as a list
ShapeAlwaysList(allResults) ==
    IF Len(allResults) > 0
    THEN [t |-> "list", v |-> [i \in DOMAIN allResults |-> Dict(allResults[i])]]
    ELSE None

\* lines 227-235
Shape(allResults) ==
    IF Len(allResults) > 1 THEN [t |-> "list", v |-> [i \in DOMAIN allResults |-> Dict(allResults[i])]]
    ELSE IF Len(allResults) = 1 THEN Dict(allResults[1])
    ELSE None

LoadReturn(t) ==
    /\ pc[t] = "load"
    /\ ld[t].work = <<>>
    /\ \/ /\ ld[t].caller = "client"
          /\ Return(t, Shape(ld[t].results))
          /\ ld' = [ld EXCEPT ![t] = Ld0]
       \/ /\ ld[t].caller = "loadFromIds"
          /\ ld' = [ld EXCEPT ![t].out = Append(@, Shape(ld[t].results)),
                              ![t].results = <<>>]
          /\ pc' = [pc EXCEPT ![t] = "loadFromIds"]
          /\ UNCHANGED ret
    /\ UNCHANGED <<store, inst, mem, sv, dl, ops, hist>>

(***************************************************************************)
(* loadFromIds(Ids)                                                        *)
(***************************************************************************)
\* lines 193-196; a list argument is [t |-> "list", v |-> <<id, ...>>]
LoadFromIdsBegin(t, Ids) ==
    /\ Idle(t)
    /\ ld' = [ld EXCEPT ![t] = [Ld0 EXCEPT !.Ids = IF Ids.t = "list" THEN Ids.v ELSE <<Ids>>]]
    /\ pc' = [pc EXCEPT ![t] = "loadFromIds"]
    /\ ret' = [ret EXCEPT ![t] = None]
    /\ hist' = [hist EXCEPT ![t] =
           [Hist0 EXCEPT !.op = "loadFromIds", !.arg = Ids,
                         !.col0 = collection, !.fs0 = fs,
                         !.follows = /\ hist[t].op = "delete"
                                     /\ ~hist[t].interrupted
                                     /\ hist[t].arg = Ids]]
    /\ ops' = ops + 1
    /\ UNCHANGED <<store, inst, mem, sv, dl>>

\* lines 199-205: obj_id is assigned for an ObjectId and for a string only;
\* ObjectId(id) of a string that is no ObjectId raises, and the string is kept
ObjIdOf(id, obj_id) ==
    IF id.t = "oid" THEN id
    ELSE IF id.t = "str" THEN (IF id.v > 0 THEN Oid(id.v) ELSE id)
    ELSE obj_id

\* lines 198-208: one turn of the loop, or the return
LoadFromIdsNext(t) ==
    /\ pc[t] = "loadFromIds"
    /\ IF ld[t].Ids = <<>>
       THEN /\ Return(t, [t |-> "list", v |-> ld[t].out])
            /\ ld' = [ld EXCEPT ![t] = Ld0]
            /\ UNCHANGED <<sv, dl, hist>>
       ELSE LET obj_id == ObjIdOf(Head(ld[t].Ids), ld[t].obj_id) IN
            IF obj_id = None
            THEN Abort(t, "UnboundLocalError")
            ELSE /\ ld' = [ld EXCEPT ![t] =
                            Find([ld[t] EXCEPT !.Ids = Tail(@), !.obj_id = obj_id],
                                 "_id" :> obj_id, TRUE, "loadFromIds")]
                 /\ pc' = [pc EXCEPT ![t] = "load"]
                 /\ UNCHANGED <<sv, dl, hist, ret>>
    /\ UNCHANGED <<store, inst, mem, ops>>

(***************************************************************************)
(* delete(objectId)                                                        *)
(***************************************************************************)
\* lines 247-248: find_one gives None when nothing matches, and None cannot
\* be subscripted
DeleteBegin(t, objectId) ==
    /\ Idle(t)
    /\ ops' = ops + 1
    /\ LET i == Position(objectId)
           h0 == [Hist0 EXCEPT !.op = "delete", !.arg = objectId,
                               !.col0 = collection, !.fs0 = fs]
       IN IF i = 0
          THEN /\ Return(t, Raise("TypeError"))
               /\ hist' = [hist EXCEPT ![t] = [h0 EXCEPT !.interrupted = TRUE]]
               /\ UNCHANGED dl
          ELSE /\ "_npObjectIDs" \in DOMAIN collection[i]
               /\ dl' = [dl EXCEPT ![t] = [objectId |-> objectId,
                                           todel |-> collection[i]["_npObjectIDs"].v]]
               /\ pc' = [pc EXCEPT ![t] = "delete"]
               /\ ret' = [ret EXCEPT ![t] = None]
               /\ hist' = [hist EXCEPT ![t] = h0]
    /\ UNCHANGED <<store, inst, mem, sv, ld>>

\* lines 249-250: one turn of the loop
DeleteBlob(t) ==
    /\ pc[t] = "delete"
    /\ dl[t].todel # <<>>
    /\ fs' = Del(fs, Head(dl[t].todel))
    /\ dl' = [dl EXCEPT ![t].todel = Tail(@)]
    /\ UNCHANGED <<collection, nextOid, inst, mem, pc, sv, ld, ret, ops, hist>>

\* line 251
DeleteRemove(t) ==
    /\ pc[t] = "delete"
    /\ dl[t].todel = <<>>
    /\ collection' = SelectSeq(collection, LAMBDA d : d["_id"] # dl[t].objectId)
    /\ Return(t, None)
    /\ dl' = [dl EXCEPT ![t] = Dl0]
    /\ UNCHANGED <<fs, nextOid, inst, mem, sv, ld, ops, hist>>

\* the identities a client asks for: those stored, and one that is not
Missing == Oid(0)
StoredIds == {collection[i]["_id"] : i \in DOMAIN collection}
HeldIds(h) == IF mem[h].doc.t = "dict" /\ "_id" \in DOMAIN mem[h].doc.v
              THEN {mem[h].doc.v["_id"]} ELSE {}
KnownIds == StoredIds \cup HeldIds(1) \cup HeldIds(2) \cup {Missing}

\* a collaborator fails (or the process is stopped) at the call a save, a
\* load or a delete is about to make
Fail(t) ==
    /\ pc[t] # "idle"
    /\ Abort(t, "StoreError")
    /\ UNCHANGED <<store, inst, mem, ops>>

\* one sequential client working on one document
Next ==
    \/ \E d \in UserDocs, id \in CallerIds \cup {None} : Create(1, d, id)
    \/ \E p \in FieldPaths, a \in Arrays : SetField(1, p, a)
    \/ \E k \in {"_id", "_npObjectIDs"} : DropKey(1, k)
    \/ Adopt(1)
    \/ SaveBegin(1, <<1>>)
    \/ SaveDoc(1)
    \/ StashLeaf(1)
    \/ SaveAttach(1)
    \/ Cleanup(1)
    \/ Upsert(1)
    \/ \E id \in KnownIds, g \in BOOLEAN : LoadBegin(1, "_id" :> id, g)
    \/ \E g \in BOOLEAN : LoadBegin(1, EmptyDict, g)
    \/ LoadLeaf(1)
    \/ LoadReturn(1)
    \/ \E id \in KnownIds : LoadFromIdsBegin(1, id)
    \/ LoadFromIdsNext(1)
    \/ \E id \in KnownIds : DeleteBegin(1, id)
    \/ DeleteBlob(1)
    \/ DeleteRemove(1)

Spec == Init /\ [][Next]_vars

\* a client whose save may fail at any step; its documents have top-level
\* fields only
FailNext ==
    \/ \E d \in TopDocs, id \in CallerIds \cup {None} : Create(1, d, id)
    \/ \E p \in FieldPaths, a \in Arrays : SetField(1, p, a)
    \/ \E k \in {"_id", "_npObjectIDs"} : DropKey(1, k)
    \/ SaveBegin(1, <<1>>)
    \/ SaveDoc(1)
    \/ StashLeaf(1)
    \/ SaveAttach(1)
    \/ Cleanup(1)
    \/ Upsert(1)
    \/ Fail(1)

SpecFail == Init /\ [][FailNext]_vars

\* two threads that share the MongoWrapper, each saving a document of its own
ConcDocs == {d \in UserDocs : DOMAIN d \in {{"a"}, {"a", "b"}}}

ConcNext ==
    \E t \in Threads :
        \/ \E d \in ConcDocs : Create(t, d, None)
        \/ \E a \in Arrays : SetField(t, <<"a">>, a)
        \/ SaveBegin(t, <<t>>)
        \/ SaveDoc(t)
        \/ StashLeaf(t)
        \/ SaveAttach(t)
        \/ Cleanup(t)
        \/ Upsert(t)

SpecConc == Init /\ [][ConcNext]_vars

\* one sequential client that holds two documents and saves one of them or a
\* list of them
ListDocs == {d \in UserDocs : DOMAIN d \in {{}, {"a"}, {"a", "b"}}}
ListArgs == {<<1>>, <<2>>, <<1, 2>>, <<2, 1>>, <<1, 1>>}

\* the client touches its documents between its calls only
ListNext ==
    \/ /\ pc[1] = "idle"
       /\ \/ \E h \in Threads, d \in ListDocs, id \in CallerIds \cup {None} : Create(h, d, id)
          \/ \E h \in Threads, a \in Arrays : SetField(h, <<"a">>, a)
          \/ \E h \in Threads : DropKey(h, "_id")
    \/ \E hs \in ListArgs : SaveBegin(1, hs)
    \/ SaveDoc(1)
    \/ StashLeaf(1)
    \/ SaveAttach(1)
    \/ Cleanup(1)
    \/ Upsert(1)

SpecList == Init /\ [][ListNext]_vars

\* a sequential client that saves a document, under the '_id' it chose or under
\* a new one, and calls loadFromIds with one id or with a list of two
IdsNext ==
    \/ \E d \in ListDocs, id \in CallerIds \cup {None} : Create(1, d, id)
    \/ DropKey(1, "_id")
    \/ SaveBegin(1, <<1>>)
    \/ SaveDoc(1)
    \/ StashLeaf(1)
    \/ SaveAttach(1)
    \/ Cleanup(1)
    \/ Upsert(1)
    \/ \E id \in KnownIds : LoadFromIdsBegin(1, id)
    \/ \E id1, id2 \in KnownIds : LoadFromIdsBegin(1, [t |-> "list", v |-> <<id1, id2>>])
    \/ LoadFromIdsNext(1)
    \/ LoadLeaf(1)
    \/ LoadReturn(1)

SpecIds == Init /\ [][IdsNext]_vars

\* a sequential client that saves, loads and deletes stored documents, and
\* saves again what it loaded; none of its calls is given an id that is not
\* stored
PlainNext ==
    \/ \E d \in UserDocs, id \in CallerIds \cup {None} : Create(1, d, id)
    \/ \E p \in FieldPaths, a \in Arrays : SetField(1, p, a)
    \/ Adopt(1)
    \/ SaveBegin(1, <<1>>)
    \/ SaveDoc(1)
    \/ StashLeaf(1)
    \/ SaveAttach(1)
    \/ Cleanup(1)
    \/ Upsert(1)
    \/ \E id \in StoredIds, g \in BOOLEAN : LoadBegin(1, "_id" :> id, g)
    \/ LoadLeaf(1)
    \/ LoadReturn(1)
    \/ \E id \in {x \in StoredIds : x.t = "oid"} : LoadFromIdsBegin(1, id)
    \/ LoadFromIdsNext(1)
    \/ \E id \in StoredIds : DeleteBegin(1, id)
    \/ DeleteBlob(1)
    \/ DeleteRemove(1)

SpecPlain == Init /\ [][PlainNext]_vars

\* thread 1 saves a document and loads it with its arrays while thread 2
\* deletes it
RaceNext ==
    \/ \E d \in UserDocs : Create(1, d, None)
    \/ pc[2] = "idle" /\ SaveBegin(1, <<1>>)
    \/ SaveDoc(1)
    \/ StashLeaf(1)
    \/ SaveAttach(1)
    \/ Cleanup(1)
    \/ Upsert(1)
    \/ \E id \in HeldIds(1) : LoadBegin(1, "_id" :> id, TRUE)
    \/ LoadLeaf(1)
    \/ LoadReturn(1)
    \/ \E id \in StoredIds : pc[1] \in {"idle", "load"} /\ DeleteBegin(2, id)
    \/ DeleteBlob(2)
    \/ DeleteRemove(2)

SpecRace == Init /\ [][RaceNext]_vars

\* two threads that share the MongoWrapper and save the same stored document:
\* thread 1 from the document it created, thread 2 from a copy of it
SameNext ==
    \/ \E d \in ConcDocs : Create(1, d, None)
    \/ Share(2, 1)
    \/ \E t \in Threads :
        \/ \E a \in Arrays : SetField(t, <<"a">>, a)
        \/ SaveBegin(t, <<t>>)
        \/ SaveDoc(t)
        \/ StashLeaf(t)
        \/ SaveAttach(t)
        \/ Cleanup(t)
        \/ Upsert(t)

SpecSame == Init /\ [][SameNext]_vars


(***************************************************************************)
(* What the properties speak of.                                           *)
(***************************************************************************)
Reserved == {"_id", "_npObjectIDs", "insertion_date"}
UserFields(d) == [k \in (DOMAIN d) \ Reserved |-> d[k]]

\* every path to a value that is no dict, with the values' tags
RECURSIVE LeafWalk(_, _, _)
LeafWalk(d, keys, prefix) ==
    IF keys = <<>> THEN {}
    ELSE LET k == Head(keys)
             val == d[k]
             here == IF val.t = "dict"
                     THEN LeafWalk(val.v, Items(val.v), Append(prefix, k))
                     ELSE {<<Append(prefix, k), val.t>>}
         IN here \cup LeafWalk(d, Tail(keys), prefix)

Tagged(d, tag) == {x[1] : x \in {y \in LeafWalk(d, Items(d), <<>>) : y[2] = tag}}
ArrayLeaves(d) == Tagged(UserFields(d), "arr")
PointerLeaves(d) == Tagged(UserFields(d), "oid")

Refs(d) == IF "_npObjectIDs" \in DOMAIN d THEN DerefDoc(d)["_npObjectIDs"].v ELSE <<>>

Stored(col, id) ==
    LET S == {i \in DOMAIN col : col[i]["_id"] = id}
    IN IF S = {} THEN EmptyDict ELSE col[CHOOSE i \in S : TRUE]

IsStored(col, id) == \E i \in DOMAIN col : col[i]["_id"] = id

\* the save of one document has just been committed by thread t
SaveDone(t) == pc[t] = "save_doc" /\ hist[t].op = "save" /\ hist[t].upserted
SavedId(t) == sv[t].id_values[Len(sv[t].id_values)]
Created(t) == (DOMAIN fs) \ {n \in 1..MaxOid + 1 : n < hist[t].next0}
Removed(t) == (DOMAIN hist[t].fs0) \ DOMAIN fs

\* a load of one identity has returned a document to thread t, whose
\* in-memory document is the one saved under that identity and not touched since
LoadedBack(t) ==
    /\ pc[t] = "idle" /\ hist[t].op = "load" /\ hist[t].getarrays
    /\ ret[t].t = "dict"
    /\ mem[t].dirty = Clean
    /\ mem[t].doc.v["_id"] = ret[t].v["_id"]

\* C1: a document loaded with getarrays after its save holds, at every array
\* leaf of the saved document, an equal array, and no ObjectId in its user fields
C1_RoundTrip ==
    \A t \in Threads : LoadedBack(t) =>
        /\ \A p \in ArrayLeaves(mem[t].doc.v) :
              /\ HasPath(ret[t].v, p)
              /\ GetPath(ret[t].v, p) = GetPath(mem[t].doc.v, p)
        /\ PointerLeaves(ret[t].v) = {}

\* C2: the second save of a document no field of which was changed creates no
\* blob, deletes no blob and stores the reference list the first save produced
C2_DedupStable ==
    \A t \in Threads : (SaveDone(t) /\ hist[t].dirty = Clean) =>
        /\ Created(t) = {}
        /\ Removed(t) = {}
        /\ Refs(Stored(collection, SavedId(t))) = Refs(hist[t].arg.v)


\* the save just committed is of a saved document in which the array at one
\* path, and nothing else, was then replaced by an array of other content
OneChanged(t) ==
    /\ SaveDone(t)
    /\ hist[t].dirty.k = "one"
    /\ hist[t].dirty.was.t = "arr"
    /\ IsStored(hist[t].col0, SavedId(t))
    /\ HasPath(Stored(hist[t].col0, SavedId(t)), hist[t].dirty.p)
    /\ GetPath(Stored(hist[t].col0, SavedId(t)), hist[t].dirty.p).t = "oid"

\* the blob the changed field pointed to in the stored document
B1(t) == GetPath(Stored(hist[t].col0, SavedId(t)), hist[t].dirty.p).v

OrphanCleanup(t) ==
    LET before == Stored(hist[t].col0, SavedId(t))
        after == Stored(collection, SavedId(t))
    IN /\ Cardinality(Created(t)) = 1
       /\ B1(t) \notin DOMAIN fs
       /\ Cardinality(ArrayLeaves(hist[t].arg.v)) = 1 =>
              (Len(Refs(after)) = 1 /\ Range(Refs(after)) = Created(t))
       /\ \A q \in ArrayLeaves(hist[t].arg.v) \ {hist[t].dirty.p} :
              (HasPath(before, q) /\ GetPath(before, q).t = "oid") =>
                  GetPath(before, q).v \in DOMAIN fs

\* C3 as claimed: resaving a saved document with one array replaced by other
\* content creates exactly one blob, removes the blob the field pointed to,
\* stores [B2] for a one-array document and keeps the blobs of the other fields
C3_OrphanCleanup_AsClaimed ==
    \A t \in Threads : OneChanged(t) => OrphanCleanup(t)

\* no other array of the document has the content the replaced one had, so
\* no other field can claim B1 by its hash
NoTwin(t) ==
    /\ B1(t) \in DOMAIN hist[t].fs0
    /\ \A q \in ArrayLeaves(hist[t].arg.v) \ {hist[t].dirty.p} :
           md5(npArray2Binary(GetPath(hist[t].arg.v, q).v)) # md5(hist[t].fs0[B1(t)])

\* C3, where no other field has the content of the replaced array: resaving
\* creates exactly one blob, removes B1, stores [B2] for a one-array document
\* and keeps the blobs of the other fields
C3_OrphanCleanup ==
    \A t \in Threads : (OneChanged(t) /\ NoTwin(t)) => OrphanCleanup(t)

\* C4: a save deletes no blob before it has upserted the document
C4_DeleteAfterUpsert ==
    \A t \in Threads :
        (hist[t].op = "save" /\ hist[t].deleted # {}) => hist[t].upserted

\* C7: after a save onto an identity that was stored, no blob the stored
\* previous revision referred to and the new reference list lacks is left
C7_NoLeakOnOverwrite ==
    \A t \in Threads :
        (SaveDone(t) /\ IsStored(hist[t].col0, SavedId(t))) =>
            \A b \in Range(Refs(Stored(hist[t].col0, SavedId(t)))) :
                b \notin Range(Refs(Stored(collection, SavedId(t)))) =>
                    b \notin DOMAIN fs


\* a delete of thread t has returned
DeleteDone(t) == pc[t] = "idle" /\ hist[t].op = "delete" /\ ~hist[t].interrupted

\* C8: a delete removes the blobs of the document's reference list and the
\* document, leaves the other documents and their blobs as they were, and a
\* loadFromIds of the identity that follows it reports None
C8_DeleteCascades ==
    \A t \in Threads :
        /\ DeleteDone(t) =>
              /\ \A b \in Range(Refs(Stored(hist[t].col0, hist[t].arg))) :
                     b \notin DOMAIN fs
              /\ collection = SelectSeq(hist[t].col0, LAMBDA d : d["_id"] # hist[t].arg)
              /\ \A i \in DOMAIN collection :
                     \A b \in Range(Refs(collection[i])) :
                         b \in DOMAIN hist[t].fs0 =>
                             (b \in DOMAIN fs /\ fs[b] = hist[t].fs0[b])
        /\ (pc[t] = "idle" /\ hist[t].op = "loadFromIds" /\ hist[t].follows) =>
              ret[t] = [t |-> "list", v |-> <<None>>]

\* C9: a delete of an identity no stored document has raises NotFoundError
\* and changes neither store
C9_DeleteMissing ==
    \A t \in Threads :
        (pc[t] = "idle" /\ hist[t].op = "delete"
            /\ ~IsStored(hist[t].col0, hist[t].arg)) =>
            /\ ret[t] = Raise("NotFoundError")
            /\ collection = hist[t].col0
            /\ fs = hist[t].fs0

\* the stored documents a query matches
Hits(q) == {i \in DOMAIN collection :
               \A k \in DOMAIN q : k \in DOMAIN collection[i] /\ collection[i][k] = q[k]}

LoadOver(t) == pc[t] = "idle" /\ hist[t].op = "load"

NoDangling(col, files) ==
    \A i \in DOMAIN col : \A b \in Range(Refs(col[i])) : b \in DOMAIN files

\* C5: when a save that started with every stored reference backed by a blob
\* is interrupted, every stored reference is still backed by a blob
C5_CrashConsistent ==
    \A t \in Threads :
        (pc[t] = "idle" /\ hist[t].op = "save" /\ hist[t].interrupted
            /\ NoDangling(hist[t].col0, hist[t].fs0)) =>
            NoDangling(collection, fs)

\* the ObjectIds the fields of a stored document hold
Pointers(d) == {GetPath(d, p).v : p \in PointerLeaves(d)}

\* C6: with two threads saving different documents through one MongoWrapper,
\* a committed document's reference list holds exactly the blobs its fields
\* point to, and a save deletes only blobs its own document came in with
C6_NoInterference ==
    \A t \in Threads :
        /\ SaveDone(t) =>
              Range(Refs(Stored(collection, SavedId(t))))
                  = Pointers(Stored(collection, SavedId(t)))
        /\ (hist[t].op = "save" /\ hist[t].arg.t = "dict") =>
              hist[t].deleted \subseteq Range(Refs(hist[t].arg.v))

\* C11: when a save has committed a document, the caller's document has the
\* user fields it had when the save took it, arrays still arrays, and its '_id'
\* and '_npObjectIDs' are those of the stored document
C11_CallerDocKept ==
    \A t \in Threads : SaveDone(t) =>
        LET doc == mem[hist[t].h].doc.v
            committed == Stored(collection, SavedId(t))
        IN /\ UserFields(doc) = UserFields(hist[t].arg.v)
           /\ "_id" \in DOMAIN doc /\ doc["_id"] = committed["_id"]
           /\ "_npObjectIDs" \in DOMAIN doc /\ Refs(doc) = Refs(committed)

C11_Witness ==
    \E t \in Threads :
        /\ SaveDone(t)
        /\ IsStored(hist[t].col0, SavedId(t))
        /\ ArrayLeaves(mem[hist[t].h].doc.v) # {}
        /\ Len(Refs(Stored(collection, SavedId(t)))) > 1
        /\ Refs(Stored(collection, SavedId(t))) # Refs(hist[t].arg.v)


\* a save of thread t has returned its list; hist[t].held has the '_id' each
\* document of the argument held at the return
SaveReturned(t) == pc[t] = "idle" /\ hist[t].op = "save" /\ ret[t].t = "list"

UniqueIds(col) == \A i, j \in DOMAIN col : col[i]["_id"] = col[j]["_id"] => i = j

\* C12: save returns one '_id' for each document of its argument, in the order
\* of the argument; a document without '_id' is stored under an ObjectId no
\* stored document had, a document with an '_id' is stored under it in the
\* place of the document that had it; no two stored documents have one '_id'
\* and the documents of other '_id's are left as they were
C12_SaveIds ==
    /\ UniqueIds(collection)
    /\ \A t \in Threads :
        /\ SaveReturned(t) =>
              /\ Len(ret[t].v) = Len(hist[t].todo0)
              /\ \A i \in DOMAIN ret[t].v :
                     /\ ret[t].v[i] = hist[t].held[i]
                     /\ IsStored(collection, ret[t].v[i])
        /\ SaveDone(t) =>
              /\ IF "_id" \in DOMAIN hist[t].arg.v
                 THEN SavedId(t) = hist[t].arg.v["_id"]
                 ELSE SavedId(t).t = "oid" /\ ~IsStored(hist[t].col0, SavedId(t))
              /\ UserFields(Stored(collection, SavedId(t))) = UserFields(sv[t].docCopy)
              /\ \A i \in DOMAIN hist[t].col0 :
                     hist[t].col0[i]["_id"] # SavedId(t) =>
                         /\ i \in DOMAIN collection
                         /\ collection[i] = hist[t].col0[i]

C12_Witness ==
    \E t \in Threads :
        /\ SaveReturned(t)
        /\ hist[t].todo0 = <<2, 1>>
        /\ Len(hist[t].col0) = 2
        /\ ret[t].v[1] # ret[t].v[2]
        /\ ret[t].v[2].t = "int"


\* a loadFromIds of thread t is over, and no blob was found missing
LoadFromIdsOver(t) ==
    pc[t] = "idle" /\ hist[t].op = "loadFromIds" /\ ret[t] # Raise("NoFile")

AskedIds(t) == IF hist[t].arg.t = "list" THEN hist[t].arg.v ELSE <<hist[t].arg>>

\* C13: loadFromIds of one id or of a list of ids, of whatever type a stored
\* '_id' has, returns a list as long as its argument whose entry i is the
\* stored document of '_id' i, or None when there is none
C13_LoadFromIds ==
    \A t \in Threads : LoadFromIdsOver(t) =>
        /\ ret[t].t = "list"
        /\ Len(ret[t].v) = Len(AskedIds(t))
        /\ \A i \in DOMAIN AskedIds(t) :
               IF IsStored(collection, AskedIds(t)[i])
               THEN /\ ret[t].v[i].t = "dict"
                    /\ ret[t].v[i].v["_id"] = AskedIds(t)[i]
               ELSE ret[t].v[i] = None

\* C13, its last part: no entry of the list loadFromIds returns is the
\* document of another '_id' than the one asked for
C13_NoOtherDocument ==
    \A t \in Threads : (LoadFromIdsOver(t) /\ ret[t].t = "list") =>
        \A i \in DOMAIN ret[t].v :
            ret[t].v[i].t = "dict" => ret[t].v[i].v["_id"] = AskedIds(t)[i]


\* the save of a document by thread t was left by an exception while its
\* arrays were being stashed; hist[t].doc is the caller's document as it was then
StashFailed(t) ==
    /\ pc[t] = "idle" /\ hist[t].op = "save" /\ hist[t].interrupted
    /\ hist[t].at = "stash"

Kept(d, k) == IF k \in DOMAIN d THEN d[k] ELSE None

\* C14: when the stashing of a document's arrays fails, the collection is as
\* it was, every blob there was is still there, and the caller's document has
\* the '_id' and the '_npObjectIDs' it came with
C14_StashFailureCommitsNothing ==
    \A t \in Threads : StashFailed(t) =>
        /\ collection = hist[t].col0
        /\ \A b \in DOMAIN hist[t].fs0 : b \in DOMAIN fs /\ fs[b] = hist[t].fs0[b]
        /\ Kept(hist[t].doc.v, "_id") = Kept(hist[t].arg.v, "_id")
        /\ Kept(hist[t].doc.v, "_npObjectIDs") = Kept(hist[t].arg.v, "_npObjectIDs")

C14_Witness ==
    \E t \in Threads :
        /\ StashFailed(t)
        /\ Created(t) # {}
        /\ "_id" \in DOMAIN hist[t].arg.v /\ IsStored(hist[t].col0, hist[t].arg.v["_id"])
        /\ Refs(hist[t].arg.v) # <<>>


\* the previous references not yet claimed whose blob has the hash of array a
Matching(a) ==
    {i \in DOMAIN temp_old :
        temp_old[i] \in DOMAIN fs /\ md5(fs[temp_old[i]]) = md5(npArray2Binary(a))}

\* thread t stashes the array at the head of its work in this step
Resolves(t) ==
    /\ pc[t] = "stash" /\ pc'[t] = "stash"
    /\ sv[t].work # <<>> /\ sv'[t].work = Tail(sv[t].work)
    /\ GetPath(sv[t].docCopy, Head(sv[t].work)).t = "arr"

ResolvesOne(t) ==
    LET p == Head(sv[t].work)
        M == Matching(GetPath(sv[t].docCopy, p).v)
        x == GetPath(sv'[t].docCopy, p)
    IN /\ x.t = "oid"
       /\ temp_new' = Append(temp_new, x.v)
       /\ IF M # {}
          THEN /\ x.v = temp_old[CHOOSE i \in M : \A j \in M : i <= j]
               /\ temp_old' = RemoveFirst(temp_old, x.v)
               /\ fs' = fs
          ELSE /\ x.v \notin DOMAIN fs /\ x.v \in DOMAIN fs'
               /\ temp_old' = temp_old

\* C15: the stashing of one array takes at most one id out of the previous
\* references, the first one left whose blob has the array's hash, writes it
\* (or the id of the one blob it puts when none matches) into the field and
\* appends that one id to the new references
C15_ResolveClaimsOne ==
    [][\A t \in Threads : Resolves(t) => ResolvesOne(t)]_vars


\* a stored document has no array, lists every ObjectId its fields hold, and
\* every id it lists is a blob of gridfs
WellFormed(d) ==
    /\ ArrayLeaves(d) = {}
    /\ Pointers(d) \subseteq Range(Refs(d))
    /\ \A b \in Range(Refs(d)) : b \in DOMAIN fs

\* C16: between the calls of a sequential client whose calls do not fail,
\* every stored document is well formed
C16_StoredWellFormed ==
    (\A t \in Threads : pc[t] = "idle") =>
        \A i \in DOMAIN collection : WellFormed(collection[i])


\* C17: no blob is in the '_npObjectIDs' of two stored documents
C17_ExclusiveOwnership ==
    \A i, j \in DOMAIN collection :
        i # j => Range(Refs(collection[i])) \cap Range(Refs(collection[j])) = {}


\* a load with getarrays of thread t is over and thread u has been deleting
\* the document it asked for
RacedLoad(t, u) ==
    /\ pc[t] = "idle" /\ hist[t].op = "load" /\ hist[t].getarrays
    /\ hist[u].op = "delete" /\ ~hist[u].interrupted
    /\ hist[t].arg.v = ("_id" :> hist[u].arg)
    /\ mem[t].doc.t = "dict" /\ Kept(mem[t].doc.v, "_id") = hist[u].arg

\* the document returned has an equal array wherever the saved one has an
\* array, and no ObjectId in its fields
Complete(loaded, saved) ==
    /\ \A p \in ArrayLeaves(saved) :
           HasPath(loaded, p) /\ GetPath(loaded, p) = GetPath(saved, p)
    /\ PointerLeaves(loaded) = {}

\* C18: a load with getarrays that runs while the document is being deleted
\* returns the document with all its arrays, returns None or raises NoFile
C18_LoadRacingDelete ==
    \A t, u \in Threads : RacedLoad(t, u) =>
        \/ ret[t] = None
        \/ ret[t] = Raise("NoFile")
        \/ ret[t].t = "dict" /\ Complete(ret[t].v, mem[t].doc.v)

\* C18 for the documents that have no array under a key '_id'
C18_LoadRacingDelete_NoIdKey ==
    \A t, u \in Threads :
        (RacedLoad(t, u) /\ \A p \in ArrayLeaves(mem[t].doc.v) : p[Len(p)] # "_id") =>
            \/ ret[t] = None
            \/ ret[t] = Raise("NoFile")
            \/ ret[t].t = "dict" /\ Complete(ret[t].v, mem[t].doc.v)


\* a stored document lists a blob that a save has deleted
ListsDeleted ==
    \E i \in DOMAIN collection, t \in Threads :
        /\ hist[t].op = "save"
        /\ Range(Refs(collection[i])) \cap hist[t].deleted # {}

\* only thread 1 has called save: its saves of its document follow one another
OneAfterTheOther == hist[2].op = "none"

\* C19, its second half: while the saves of one document in memory are run one
\* after the other, no stored document lists a blob a save has deleted
C19_SequentialSaves ==
    OneAfterTheOther => ~ListsDeleted

\* the same between the calls only
C19_SequentialSaves_AtRest ==
    (OneAfterTheOther /\ pc[1] = "idle") => ~ListsDeleted

\* C19, its first half: two saves of one stored document that overlapped have
\* both returned, and the stored document lists a blob one of them deleted
C19_Interleaved ==
    /\ \A t \in Threads : pc[t] = "idle" /\ hist[t].op = "save" /\ ret[t].t = "list"
    /\ Len(collection) = 1
    /\ ListsDeleted


====
